---- MODULE Spec2Model ----
(***************************************************************************)
(* A model of unz (github.com/mark-summerfield/unz): the command that      *)
(* lists or unpacks tar and zip archives.                                  *)
(*                                                                         *)
(* Text the program inspects byte by byte (archive names, formatted        *)
(* numbers) is a sequence of one-character strings.  Member names, which   *)
(* the program only stores and prints, are plain strings.                  *)
(***************************************************************************)
EXTENDS Integers, Sequences, FiniteSets, TLC

\* ------------------------------------------------------------------ bounds

\* The most archive arguments of a run.
MaxArchives == 2
\* The most blocks (member headers, corrupt or not) in one archive.
MaxEntries == 2
\* The consecutive read failures counted before the count saturates.
MaxFails == 3
\* The log lines recorded per archive before the record saturates.
MaxLog == 3
\* The most extensions appended to an archive name in the detection runs.
MaxExt == 3
\* The digits of the larger numbers formatted.
MaxDigits == 7
\* Every number of at most this magnitude is formatted.
MaxSmall == 1100

\* ------------------------------------------------------------ Go's strings

LowerLetters == <<"a","b","c","d","e","f","g","h","i","j","k","l","m",
                  "n","o","p","q","r","s","t","u","v","w","x","y","z">>
UpperLetters == <<"A","B","C","D","E","F","G","H","I","J","K","L","M",
                  "N","O","P","Q","R","S","T","U","V","W","X","Y","Z">>

\* unicode.ToUpper on one (ASCII) character
ToUpperChar(c) ==
  IF \E k \in 1..Len(LowerLetters) : LowerLetters[k] = c
  THEN UpperLetters[CHOOSE k \in 1..Len(LowerLetters) : LowerLetters[k] = c]
  ELSE c

\* strings.ToUpper
ToUpper(str) == [k \in 1..Len(str) |-> ToUpperChar(str[k])]

\* strings.HasSuffix
HasSuffix(str, suffix) ==
  /\ Len(str) >= Len(suffix)
  /\ SubSeq(str, Len(str) - Len(suffix) + 1, Len(str)) = suffix

\* strings.Contains
Contains(str, substr) ==
  \E k \in 0..(Len(str) - Len(substr)) :
     SubSeq(str, k + 1, k + Len(substr)) = substr

\* -------------------------------------------------------- format detection

\* isTarball
isTarball(name) ==
  LET u == ToUpper(name) IN
    \/ HasSuffix(u, <<".","T","A","R">>)
    \/ HasSuffix(u, <<".","T","G","Z">>)
    \/ Contains(u, <<".","T","A","R",".">>)

\* process: which reader handles the archive
ReaderFor(archive) == IF isTarball(archive) THEN "tar" ELSE "zip"

\* openTarball's choice of decompressor: the if/else-if chain on uarchive
Decompressor(archive) ==
  LET u == ToUpper(archive) IN
    IF HasSuffix(u, <<".","G","Z">>) \/ HasSuffix(u, <<".","T","G","Z">>)
    THEN "gzip"
    ELSE IF HasSuffix(u, <<".","B","Z","2">>) THEN "bzip2"
    ELSE IF HasSuffix(u, <<".","X","Z">>) THEN "xz"
    ELSE "plain"

\* ------------------------------------------------------ number formatting

DigitChars == <<"0","1","2","3","4","5","6","7","8","9">>

RECURSIVE Digits(_)
\* the decimal digits of n >= 0
Digits(n) ==
  IF n < 10 THEN <<DigitChars[n + 1]>>
  ELSE Digits(n \div 10) \o <<DigitChars[(n % 10) + 1]>>

\* strconv.Itoa
Itoa(n) == IF n < 0 THEN <<"-">> \o Digits(0 - n) ELSE Digits(n)

\* The digits between two commas.
GroupSize == 3

RECURSIVE InsertCommas(_, _)
\* commas' loop: for n >= 0 { s = s[:n] + "," + s[n:]; n -= 3 }
InsertCommas(str, n) ==
  IF n >= 0
  THEN InsertCommas(SubSeq(str, 1, n) \o <<",">> \o SubSeq(str, n + 1, Len(str)),
                    n - GroupSize)
  ELSE str

\* commas without the test that drops a leading comma
commas_NoStrip(n) ==
  LET s0  == Itoa(n)
      pos == s0[1] # "-"
      s1  == IF pos THEN s0 ELSE Tail(s0)
      s2  == InsertCommas(s1, Len(s1) - GroupSize)
  IN IF pos THEN s2 ELSE <<"-">> \o s2

\* commas
commas(n) ==
  LET s0  == Itoa(n)
      pos == s0[1] # "-"
      s1  == IF pos THEN s0 ELSE Tail(s0)
      s2  == InsertCommas(s1, Len(s1) - GroupSize)
      s3  == IF s2[1] = "," THEN Tail(s2) ELSE s2
  IN IF pos THEN s3 ELSE <<"-">> \o s3

\* s: the plural suffix
s(n) == IF n = 1 THEN "" ELSE "s"

\* ------------------------------------------------------------- the inputs

\* The archive names of the program runs.
RunNames ==
  { <<"x",".","z","i","p">>,
    <<"x",".","t","a","r">>,
    <<"x",".","t","g","z">>,
    <<"x",".","t","a","r",".","g","z">>,
    <<"x",".","t","a","r",".","b","z","2">>,
    <<"x",".","t","a","r",".","x","z">> }

\* The member names an archive may hold.
Members == {"a.txt", "dir/", "/etc/passwd", "../../evil", "a/../b"}

\* A block of an archive that cannot be decoded as a member header.
Corrupt == "#corrupt"

Blocks == Members \cup {Corrupt}

BlockSeqs == UNION {[1..k -> Blocks] : k \in 0..MaxEntries}

\* What is on disk under an archive's name: nothing that can be opened
\* ("missing"), bytes that are no archive at all ("garbage"), or a
\* well-formed container holding a sequence of blocks.
Disks ==
  {[state |-> "missing", entries |-> <<>>],
   [state |-> "garbage", entries |-> <<>>]}
  \cup {[state |-> "ok", entries |-> e] : e \in BlockSeqs}

NoArchive == [name |-> <<>>, disk |-> [state |-> "missing", entries |-> <<>>]]

\* ---------------------------------------------------------------- the state

VARIABLES
  verbose,   \* getConfig: --verbose
  unpack,    \* getConfig: not --list
  nargs,     \* the number of archive arguments
  i,         \* main: the argument being, or next to be, processed
  pc,        \* "main": at the top of main's loop; "call": processTarball is
             \* about to call reader.Next(); "got": Next() has returned;
             \* "returned": process() has returned
  cur,       \* the archive of the latest process() call: name and disk
  status,    \* that call: "idle", "running", "failedOpen" or "done"
  codec,     \* processTarball: the decompressor under the tar reader
  pos,       \* the tar reader: the next block to decode
  rerr,      \* the tar reader: its sticky error, "nil", "EOF" or "err"
  res,       \* what reader.Next() returned: <<"hdr", name>>, <<"EOF">>, <<"err">>
  names,     \* processTarball: the names collected
  closer,    \* processTarball: the resources the deferred closer releases
  open,      \* the OS resources held: <<argument, "file" or "gzip">>
  out,       \* what the latest process() call wrote to standard output
  log,       \* what that call logged (standard error)
  fails,     \* the consecutive failed Next() calls handled (saturating)
  fs,        \* the paths this run has created or written
  dname,     \* detection runs: the name classified
  dres,      \* detection runs: <<reader, decompressor>>, <<>> before the call
  cn,        \* formatting runs: the number formatted
  cres       \* formatting runs: commas(cn), <<>> before the call

progVars == <<verbose, unpack, nargs, i, pc, cur, status, codec, pos, rerr,
              res, names, closer, open, out, log, fails, fs>>
vars == <<verbose, unpack, nargs, i, pc, cur, status, codec, pos, rerr,
          res, names, closer, open, out, log, fails, fs, dname, dres, cn, cres>>

\* ------------------------------------------------------------ the libraries

\* log.Println, recorded up to MaxLog lines
Logged(lg, line) == IF Len(lg) < MaxLog THEN Append(lg, line) ELSE lg

\* archive/tar's Reader.Next(): an error, end of archive included, is kept
\* and returned by every later call
TarNext(disk, p, e) ==
  IF e # "nil" THEN [res |-> <<e>>, pos |-> p, rerr |-> e]
  ELSE IF disk.state = "garbage" THEN [res |-> <<"err">>, pos |-> p, rerr |-> "err"]
  ELSE IF p > Len(disk.entries) THEN [res |-> <<"EOF">>, pos |-> p, rerr |-> "EOF"]
  ELSE IF disk.entries[p] = Corrupt THEN [res |-> <<"err">>, pos |-> p, rerr |-> "err"]
  ELSE [res |-> <<"hdr", disk.entries[p]>>, pos |-> p + 1, rerr |-> "nil"]

\* zip.OpenReader succeeds when the file opens and its whole directory decodes
ZipOpens(disk) ==
  /\ disk.state = "ok"
  /\ \A k \in 1..Len(disk.entries) : disk.entries[k] # Corrupt

\* ------------------------------------------------------------- the program

\* "if unpack { // TODO }" with the test of unpack left out and the member written
UnpackMember_Always(fsys, member, doUnpack) ==
  fsys \cup {[dir |-> <<>>, name |-> member]}

\* "if unpack { // TODO }": what unpacking one member does to the filesystem
UnpackMember(fsys, member, doUnpack) ==
  IF doUnpack THEN fsys ELSE fsys

RECURSIVE UnpackAll(_, _, _)
\* processZip's loop over reader.File, as far as the filesystem goes
UnpackAll(fsys, members, doUnpack) ==
  IF members = <<>> THEN fsys
  ELSE UnpackAll(UnpackMember(fsys, Head(members), doUnpack), Tail(members), doUnpack)

\* openTarball: the reader it returns ("nil" on failure), the resources it
\* leaves open, the resources its closer releases, the line it logs
openTarball(archive, disk) ==
  IF disk.state = "missing"
  THEN [reader |-> "nil", held |-> {}, closer |-> {},
        logged |-> << <<"failed to open", archive>> >>]
  ELSE LET c == Decompressor(archive) IN
    IF c \in {"gzip", "xz"} /\ disk.state = "garbage"
    THEN [reader |-> "nil", held |-> {"file"}, closer |-> {},
          logged |-> << <<"failed to open", archive>> >>]
    ELSE IF c = "gzip"
    THEN [reader |-> c, held |-> {"file", "gzip"}, closer |-> {"file", "gzip"},
          logged |-> <<>>]
    ELSE [reader |-> c, held |-> {"file"}, closer |-> {"file"}, logged |-> <<>>]

\* the archive's name as both readers print it first
Heading(archive) ==
  IF verbose THEN <<"text", "bold", archive>> ELSE <<"text", "plain", archive>>

\* Printf(" (%s member%s)", commas(n), s(n))
CountText(n) == <<"count", commas(n), s(n)>>

\* Println(name) for each name
Lines(ns) == [k \in 1..Len(ns) |-> <<"line", ns[k]>>]

\* processTarball up to its loop: open, defer the closer, print the name
StartTarball(archive, disk) ==
  LET o == openTarball(archive, disk) IN
    /\ cur' = [name |-> archive, disk |-> disk]
    /\ open' = open \cup {<<i, h>> : h \in o.held}
    /\ log' = o.logged
    /\ names' = <<>>
    /\ fails' = 0
    /\ pos' = 1
    /\ rerr' = "nil"
    /\ res' = <<>>
    /\ fs' = fs
    /\ IF o.reader = "nil"
       THEN /\ status' = "failedOpen"
            /\ codec' = "none"
            /\ closer' = {}
            /\ out' = <<>>
            /\ pc' = "returned"
       ELSE /\ status' = "running"
            /\ codec' = o.reader
            /\ closer' = o.closer
            /\ out' = IF ~unpack \/ verbose THEN <<Heading(archive)>> ELSE <<>>
            /\ pc' = "call"

\* processZip
processZip(archive, disk) ==
  /\ cur' = [name |-> archive, disk |-> disk]
  /\ names' = <<>>
  /\ fails' = 0
  /\ pos' = 1
  /\ rerr' = "nil"
  /\ res' = <<>>
  /\ codec' = "none"
  /\ closer' = {}
  /\ open' = open
  /\ pc' = "returned"
  /\ IF ~ZipOpens(disk)
     THEN /\ status' = "failedOpen"
          /\ log' = << <<"failed to open from", archive>> >>
          /\ out' = <<>>
          /\ fs' = fs
     ELSE /\ status' = "done"
          /\ log' = <<>>
          /\ fs' = UnpackAll(fs, disk.entries, unpack)
          /\ out' = IF ~unpack \/ verbose
                    THEN (IF verbose
                          THEN <<Heading(archive), CountText(Len(disk.entries))>>
                          ELSE <<Heading(archive)>>)
                         \o << <<"nl">> >> \o Lines(disk.entries)
                    ELSE <<>>

\* main's loop body: process(archive), to the point where a tarball's
\* members are read
Process ==
  /\ pc = "main"
  /\ i <= nargs
  /\ \E archive \in RunNames, disk \in Disks :
       IF ReaderFor(archive) = "tar"
       THEN StartTarball(archive, disk)
       ELSE processZip(archive, disk)
  /\ UNCHANGED <<verbose, unpack, nargs, i, dname, dres, cn, cres>>

\* processTarball's loop: header, err := reader.Next()
ReadNext ==
  /\ pc = "call"
  /\ LET r == TarNext(cur.disk, pos, rerr) IN
       /\ res' = r.res
       /\ pos' = r.pos
       /\ rerr' = r.rerr
  /\ pc' = "got"
  /\ UNCHANGED <<verbose, unpack, nargs, i, cur, status, codec, names, closer,
                 open, out, log, fails, fs, dname, dres, cn, cres>>

\* processTarball's loop after Next(): break at io.EOF (then print and
\* return, running the deferred closer), log any other error, keep a header
HandleEntry ==
  /\ pc = "got"
  /\ IF res[1] = "EOF"
     THEN /\ out' = IF ~unpack \/ verbose
                    THEN out \o (IF verbose THEN <<CountText(Len(names))>> ELSE <<>>)
                             \o << <<"nl">> >> \o Lines(names)
                    ELSE out
          /\ open' = open \ {<<i, h>> : h \in closer}
          /\ status' = "done"
          /\ pc' = "returned"
          /\ UNCHANGED <<log, fails, names, fs>>
     ELSE IF res[1] = "err"
     THEN /\ log' = Logged(log, <<"failed to read from", cur.name>>)
          /\ fails' = IF fails < MaxFails THEN fails + 1 ELSE fails
          /\ pc' = "call"
          /\ UNCHANGED <<out, open, status, names, fs>>
     ELSE /\ fs' = UnpackMember(fs, res[2], unpack)
          /\ names' = IF ~unpack \/ verbose THEN Append(names, res[2]) ELSE names
          /\ fails' = 0
          /\ pc' = "call"
          /\ UNCHANGED <<out, open, status, log>>
  /\ UNCHANGED <<verbose, unpack, nargs, i, cur, codec, pos, rerr, res, closer,
                 dname, dres, cn, cres>>

\* main's loop moves to the next argument: what process() held is gone
NextArchive ==
  /\ pc = "returned"
  /\ pc' = "main"
  /\ i' = i + 1
  /\ cur' = NoArchive
  /\ status' = "idle"
  /\ codec' = "none"
  /\ pos' = 1
  /\ rerr' = "nil"
  /\ res' = <<>>
  /\ names' = <<>>
  /\ closer' = {}
  /\ out' = <<>>
  /\ log' = <<>>
  /\ fails' = 0
  /\ UNCHANGED <<verbose, unpack, nargs, open, fs, dname, dres, cn, cres>>

\* main after getConfig
Init ==
  /\ verbose \in BOOLEAN
  /\ unpack \in BOOLEAN
  /\ nargs \in 1..MaxArchives
  /\ i = 1
  /\ pc = "main"
  /\ cur = NoArchive
  /\ status = "idle"
  /\ codec = "none"
  /\ pos = 1
  /\ rerr = "nil"
  /\ res = <<>>
  /\ names = <<>>
  /\ closer = {}
  /\ open = {}
  /\ out = <<>>
  /\ log = <<>>
  /\ fails = 0
  /\ fs = {}
  /\ dname = <<>>
  /\ dres = <<>>
  /\ cn = 0
  /\ cres = <<>>

Next == Process \/ ReadNext \/ HandleEntry \/ NextArchive

Spec == Init /\ [][Next]_vars

\* The program always takes its next step: it is one sequential thread.
FairSpec == Init /\ [][Next]_vars /\ WF_vars(Next)

\* ------------------------------------------------------ the detection runs

\* The extensions the classified names are built from.
Extensions ==
  { <<".","t","a","r">>, <<".","t","g","z">>, <<".","g","z">>,
    <<".","b","z","2">>, <<".","x","z">>, <<".","z","i","p">>,
    <<".","o","l","d">> }

RECURSIVE Flatten(_)
Flatten(parts) == IF parts = <<>> THEN <<>> ELSE Head(parts) \o Flatten(Tail(parts))

\* A name in lower case, in upper case, or with every second character
\* in upper case.
Cased(name, mode) ==
  IF mode = "upper" THEN ToUpper(name)
  ELSE IF mode = "mixed"
  THEN [k \in 1..Len(name) |-> IF k % 2 = 0 THEN ToUpperChar(name[k]) ELSE name[k]]
  ELSE name

\* The names classified: x followed by up to MaxExt extensions.
ArchiveNames ==
  { Cased(<<"x">> \o Flatten(parts), mode) :
      parts \in UNION {[1..k -> Extensions] : k \in 0..MaxExt},
      mode \in {"lower", "upper", "mixed"} }

\* process(archive) as far as the choice of reader and decompressor
Detect ==
  /\ dres = <<>>
  /\ dres' = <<ReaderFor(dname),
               IF ReaderFor(dname) = "tar" THEN Decompressor(dname) ELSE "none">>
  /\ UNCHANGED <<progVars, dname, cn, cres>>

\* The program's own variables while a single function is applied.
Parked ==
  /\ verbose = FALSE
  /\ unpack = FALSE
  /\ nargs = 1
  /\ i = 1
  /\ pc = "main"
  /\ cur = NoArchive
  /\ status = "idle"
  /\ codec = "none"
  /\ pos = 1
  /\ rerr = "nil"
  /\ res = <<>>
  /\ names = <<>>
  /\ closer = {}
  /\ open = {}
  /\ out = <<>>
  /\ log = <<>>
  /\ fails = 0
  /\ fs = {}

InitDetect ==
  /\ Parked
  /\ dname \in ArchiveNames
  /\ dres = <<>>
  /\ cn = 0
  /\ cres = <<>>

SpecDetect == InitDetect /\ [][Detect]_vars

\* ----------------------------------------------------- the formatting runs

RECURSIVE DigitValues(_)
\* The numbers of at most k digits written with 0, 1 and 9 only.
DigitValues(k) ==
  IF k = 0 THEN {0}
  ELSE {10 * v + d : v \in DigitValues(k - 1), d \in {0, 1, 9}}

CommaInputs ==
  (-MaxSmall..MaxSmall)
  \cup DigitValues(MaxDigits) \cup {0 - v : v \in DigitValues(MaxDigits)}

\* commas(cn)
Format ==
  /\ cres = <<>>
  /\ cres' = commas(cn)
  /\ UNCHANGED <<progVars, dname, dres, cn>>

InitCommas ==
  /\ Parked
  /\ dname = <<>>
  /\ dres = <<>>
  /\ cn \in CommaInputs
  /\ cres = <<>>

SpecCommas == InitCommas /\ [][Format]_vars

\* ------------------------------------------- what the claims are stated in

\* Two characters that are the same letter in either case.
SameLetter(c, d) ==
  \/ c = d
  \/ \E k \in 1..Len(LowerLetters) : {c, d} = {LowerLetters[k], UpperLetters[k]}

\* name ends in ext, whatever the case of its letters
EndsIn(name, ext) ==
  /\ Len(name) >= Len(ext)
  /\ \A k \in 1..Len(ext) : SameLetter(name[Len(name) - Len(ext) + k], ext[k])

\* name contains part, whatever the case of its letters
Holds(name, part) ==
  \E j \in 1..(Len(name) - Len(part) + 1) :
     \A k \in 1..Len(part) : SameLetter(name[j + k - 1], part[k])

\* The same character in the other case.
OtherCase(c) ==
  IF \E k \in 1..Len(LowerLetters) : LowerLetters[k] = c
  THEN UpperLetters[CHOOSE k \in 1..Len(LowerLetters) : LowerLetters[k] = c]
  ELSE IF \E k \in 1..Len(UpperLetters) : UpperLetters[k] = c
  THEN LowerLetters[CHOOSE k \in 1..Len(UpperLetters) : UpperLetters[k] = c]
  ELSE c

\* Names that differ from name only in letter case: one letter changed,
\* every letter changed, all in upper case.
CaseVariants(name) ==
  {[name EXCEPT ![k] = OtherCase(name[k])] : k \in 1..Len(name)}
  \cup {[k \in 1..Len(name) |-> OtherCase(name[k])], ToUpper(name)}

\* The names the tar reader is claimed to handle.
TarName(name) ==
  \/ EndsIn(name, <<".","t","a","r">>)
  \/ EndsIn(name, <<".","t","g","z">>)
  \/ Holds(name, <<".","t","a","r",".">>)

\* The member names of an archive's well-formed blocks, in archive order.
GoodNames(entries) == SelectSeq(entries, LAMBDA b : b # Corrupt)

\* What list mode without --verbose is claimed to print for an archive.
ListingOf(a) ==
  << <<"text", "plain", a.name>>, <<"nl">> >> \o Lines(GoodNames(a.disk.entries))

\* A formatted number without its commas.
StripCommas(str) == SelectSeq(str, LAMBDA c : c # ",")

RECURSIVE DecimalValue(_)
\* The number a sequence of digits writes.
DecimalValue(digits) ==
  IF digits = <<>> THEN 0
  ELSE 10 * DecimalValue(SubSeq(digits, 1, Len(digits) - 1))
       + (CHOOSE d \in 0..9 : DigitChars[d + 1] = digits[Len(digits)])

\* Section 4.5 step 3: the member names the extractor must reject.
Unsafe(member) == member \in {"/etc/passwd", "../../evil"}

\* Section 4.5 step 3: a member name cleaned of . and .. segments.
CleanName(member) ==
  IF member = "a/../b" THEN "b" ELSE IF member = "dir/" THEN "dir" ELSE member

RECURSIVE BaseName(_)
\* Section 3: the archive's name with its archive suffixes stripped.
BaseName(name) ==
  IF \E e \in Extensions \ {<<".","o","l","d">>} : EndsIn(name, e)
  THEN LET e == CHOOSE x \in Extensions \ {<<".","o","l","d">>} : EndsIn(name, x)
       IN BaseName(SubSeq(name, 1, Len(name) - Len(e)))
  ELSE name

\* Section 4.5 step 2: where the members of the latest archive must land.
DestinationRoot ==
  IF Len(cur.disk.entries) >= 2 THEN BaseName(cur.name) ELSE <<>>

\* ---------------------------------------------------------------- the claims

\* C1, as claimed: a name ending in .zip goes to the zip reader, a name
\* ending in .tar or .tgz or containing .tar. goes to the tar reader, and
\* names differing only in case go to the same reader.
C1_Original ==
  dres # <<>> =>
    /\ EndsIn(dname, <<".","z","i","p">>) => dres[1] = "zip"
    /\ TarName(dname) => dres[1] = "tar"
    /\ \A b \in CaseVariants(dname) : ReaderFor(b) = dres[1]

\* C2, as claimed: for a name the tar reader handles, gzip exactly when it
\* ends in .tgz or contains .tar.gz, bzip2 exactly when it contains
\* .tar.bz2, xz exactly when it contains .tar.xz, and otherwise none.
C2_Original ==
  (dres # <<>> /\ dres[1] = "tar") =>
    LET gz  == EndsIn(dname, <<".","t","g","z">>)
               \/ Holds(dname, <<".","t","a","r",".","g","z">>)
        bz2 == Holds(dname, <<".","t","a","r",".","b","z","2">>)
        xz  == Holds(dname, <<".","t","a","r",".","x","z">>)
    IN /\ dres[2] = "gzip" <=> gz
       /\ dres[2] = "bzip2" <=> bz2
       /\ dres[2] = "xz" <=> xz
       /\ dres[2] = "plain" <=> ~(gz \/ bz2 \/ xz)

\* C3, as claimed: in list mode without --verbose an archive that opens is
\* printed as its name and then one line per well-formed member, in archive
\* order; a failed read does not keep the later members from being listed.
C3_Original ==
  /\ []((status = "done" /\ ~unpack /\ ~verbose) => out = ListingOf(cur))
  /\ \A k \in 1..MaxArchives :
       (i = k /\ status = "running" /\ ~unpack /\ ~verbose)
         ~> (i = k /\ status = "done" /\ out = ListingOf(cur))

\* C4, as claimed: every archive argument is eventually processed.
C4_Original == <>(pc = "main" /\ i > nargs)

\* C5, as claimed: at most one archive's resources are open at a time, and
\* none is open once the processing of an archive has ended.
C5_Original ==
  /\ Cardinality({h[1] : h \in open}) <= 1
  /\ pc \in {"returned", "main"} => open = {}

\* C6, as claimed: after an archive is unpacked its members are in a
\* subfolder named after the archive when there are two or more of them,
\* and in the current folder when there is one.
C6_Original ==
  (status = "done" /\ unpack) =>
    LET n == Len(cur.disk.entries)
        written(k, root) ==
          ~Unsafe(cur.disk.entries[k]) =>
             [dir |-> root, name |-> CleanName(cur.disk.entries[k])] \in fs
    IN /\ n >= 2 => /\ \A k \in 1..n : written(k, BaseName(cur.name))
                    /\ \A p \in fs : p.dir # <<>>
       /\ n = 1 => written(1, <<>>)

\* C7, as claimed: after an archive is unpacked, a member with an absolute
\* or escaping name has been reported and not written, and every other
\* member has been written under the destination root by its cleaned name.
C7_Original ==
  (status = "done" /\ unpack) =>
    \A k \in 1..Len(cur.disk.entries) :
       LET m == cur.disk.entries[k] IN
         IF Unsafe(m)
         THEN /\ \A p \in fs : p.name # m
              /\ \E j \in 1..Len(log) : log[j][1] = "rejected" /\ log[j][2] = m
         ELSE [dir |-> DestinationRoot, name |-> CleanName(m)] \in fs

\* C8: commas(n) is the decimal text of n with a comma before each complete
\* group of three digits from the right: a '-' first exactly when n < 0,
\* commas exactly at every fourth place from the right and never first, and
\* the text without its commas is the decimal text of n.
C8_Commas ==
  cres # <<>> =>
    LET body  == IF cres[1] = "-" THEN Tail(cres) ELSE cres
        plain == StripCommas(body)
    IN /\ (cres[1] = "-") <=> (cn < 0)
       /\ body # <<>> /\ body[1] # ","
       /\ \A k \in 1..Len(body) :
            (body[k] = ",") <=> ((Len(body) - k + 1) % (GroupSize + 1) = 0)
       /\ \A k \in 1..Len(plain) : \E d \in 1..10 : DigitChars[d] = plain[k]
       /\ Len(plain) = 1 \/ plain[1] # "0"
       /\ DecimalValue(plain) = (IF cn < 0 THEN 0 - cn ELSE cn)
       /\ StripCommas(cres) = Itoa(cn)

\* -1000000 has been formatted, as -1,000,000.
C8_Witness ==
  /\ cn = 0 - 1000000
  /\ cres = <<"-","1",",","0","0","0",",","0","0","0">>

\* C9: in list mode nothing is ever created or written.
C9_ListReadOnly == ~unpack => fs = {}

\* In list mode a gzipped tarball of two members has been listed to its end.
C9_Witness ==
  /\ ~unpack
  /\ status = "done"
  /\ codec = "gzip"
  /\ Len(names) = 2

\* C10, as claimed: after two consecutive read failures the loop does not
\* call Next() again (here it has been called, and has returned).
C10_Original == ~(pc = "got" /\ fails >= 2)

====
